---- MODULE Spec2Model ----
(***************************************************************************)
(* MENACE (menace-rs): the matchbox table, the weighted choice, the game   *)
(* record and the adjustment applied at game end, together with the        *)
(* tic-tac-toe board they consume and the game loop of main.rs.            *)
(*                                                                         *)
(* Five specifications share the variables:                                *)
(*   Spec      a client that owns a TicTacToe and a Menace::new() and      *)
(*             calls set, choose and adjust in any order;                  *)
(*   LoadSpec  the same client on an engine obtained from Menace::load;    *)
(*   LoopSpec  main.rs: game_loop driving the engine;                      *)
(*   MainSpec  main.rs: load, game_loop, save;                             *)
(*   SaveSpec  the client of Spec, which ends by saving its engine, and a  *)
(*             second process that loads the file.                         *)
(***************************************************************************)
EXTENDS Integers, Sequences, FiniteSets, TLC

VARIABLES board, matchbox, record, pc, call, game_adjusts, file

vars == <<board, matchbox, record, pc, call, game_adjusts, file>>

----------------------------------------------------------------------------
(* Bounds                                                                  *)

\* largest bead count a client lets a positive adjustment produce
MaxCount == 5

\* longest record a client accumulates before it adjusts
MaxRecord == 2

\* number of cells (in row-major order of the empty ones) the human
\* player of game_loop picks from at each turn
MaxPlayerOptions == 2

----------------------------------------------------------------------------
(* Program constants                                                       *)

INITIAL_COUNT == 2

WIN == 3

LOSE == -1

DRAW == 1

\* the floor the code clamps to (menace.rs:205-209)
MIN_COUNT == 0

\* Bead.count is a u32 (menace.rs:21). The integers of the checker have 32
\* bits, so a count is held as the signed integer with the same 32 bits:
\* a value below 2^31 is itself, and 2^32 - k (1 <= k <= 2^31) is held as -k.
\* U32Leq is <= on the values.
U32Leq(a, b) == IF (a >= 0) = (b >= 0) THEN a <= b ELSE a >= 0

Deltas == {WIN, LOSE, DRAW}

----------------------------------------------------------------------------
(* game/symbol.rs and game/tictactoe.rs                                    *)

Symbol == {"EMPTY", "X", "O"}

\* Symbol::as_char: one character per symbol, distinct symbols give
\* distinct characters
as_char(sym) ==
    CASE sym = "EMPTY" -> " "
      [] sym = "X"     -> "X"
      [] sym = "O"     -> "O"

Cells == (0..2) \X (0..2)

\* the cells in the order of the nested row/col loops
AllCells == [i \in 1..9 |-> <<(i - 1) \div 3, (i - 1) % 3>>]

TicTacToe_new == [c \in Cells |-> "EMPTY"]

set(b, cell, sym) == [b EXCEPT ![cell] = sym]

legal_move(b, cell) == b[cell] = "EMPTY"

board_full(b) == \A c \in Cells : b[c] # "EMPTY"

check_win(b) ==
    IF \E r \in 0..2 : b[<<r, 0>>] = b[<<r, 1>>] /\ b[<<r, 1>>] = b[<<r, 2>>]
                        /\ b[<<r, 0>>] # "EMPTY"
    THEN TRUE
    ELSE IF \E c \in 0..2 : b[<<0, c>>] = b[<<1, c>>] /\ b[<<1, c>>] = b[<<2, c>>]
                             /\ b[<<0, c>>] # "EMPTY"
    THEN TRUE
    ELSE IF b[<<1, 1>>] # "EMPTY"
    THEN \/ (b[<<0, 0>>] = b[<<1, 1>>] /\ b[<<1, 1>>] = b[<<2, 2>>])
         \/ (b[<<0, 2>>] = b[<<1, 1>>] /\ b[<<1, 1>>] = b[<<2, 0>>])
    ELSE FALSE

flatten(b) == [i \in 1..9 |-> as_char(b[AllCells[i]])]

\* faulty variant: every cell, occupied or not
possible_movesAll(b) == AllCells

\* faulty variant: the occupied cells instead of the empty ones
possible_movesTaken(b) == SelectSeq(AllCells, LAMBDA c : b[c] # "EMPTY")

possible_moves(b) == SelectSeq(AllCells, LAMBDA c : b[c] = "EMPTY")

----------------------------------------------------------------------------
(* menace.rs: Bead, populate, the weighted index, adjust                   *)

NoAction == <<>>

\* faulty variant: one bead more than INITIAL_COUNT
Bead_newThree(action) == [action |-> action, count |-> INITIAL_COUNT + 1]

Bead_new(action) == [action |-> action, count |-> INITIAL_COUNT]

populate(mb, game_state, moves) ==
    (game_state :> [i \in 1..Len(moves) |-> Bead_new(moves[i])]) @@ mb

RECURSIVE SumSeq(_)
SumSeq(s) == IF s = <<>> THEN 0 ELSE Head(s) + SumSeq(Tail(s))

Counts(moves) == [i \in 1..Len(moves) |-> moves[i].count]

\* the weights whose value is 2^31 or more
HighWeights(weights) == {i \in 1..Len(weights) : weights[i] < 0}

\* the sum of the values is 2^32 or more: total_weight += w overflows u32
SumOverflows(weights) ==
    \/ Cardinality(HighWeights(weights)) >= 2
    \/ Cardinality(HighWeights(weights)) = 1 /\ SumSeq(weights) >= 0

\* WeightedIndex::new(weights): "ok", or the error unwrap() panics on
WeightedIndex_new(weights) ==
    IF Len(weights) = 0 THEN "NoItem"
    ELSE IF SumOverflows(weights) THEN "Overflow"
    ELSE IF \A i \in 1..Len(weights) : weights[i] = 0 THEN "AllWeightsZero"
    ELSE "ok"

\* faulty variant: every index, whatever its weight
SampleSetAny(weights) == 0..(Len(weights) - 1)

\* the (0-based) indices sample() can return
SampleSet(weights) == {i \in 0..(Len(weights) - 1) : weights[i + 1] # 0}

\* faulty variant: the cast without the floor
AdjustCountNoFloor(count, delta) == count + delta

\* faulty variant: one bead added or removed whatever the size of delta
AdjustCountUnit(count, delta) ==
    IF delta > 0 THEN count + 1
    ELSE IF count >= 0 /\ count - 1 < 0 THEN 0 ELSE count - 1

\* menace.rs:203-209. new_bead_count is the i64 value of count plus delta; it
\* is negative exactly when count is below 2^31 and count + delta < 0, and the
\* cast back to u32 keeps its low 32 bits, which are those of count + delta.
AdjustCount(count, delta) ==
    IF count >= 0 /\ count + delta < 0 THEN 0 ELSE count + delta

\* the two unwrap() of menace.rs:200-201 succeed on this record entry
ValidEntry(mb, e) ==
    /\ e[1] \in DOMAIN mb
    /\ e[2] + 1 \in 1..Len(mb[e[1]])

\* faulty variant: every bead of the recorded matchbox is adjusted
AdjustBeadAll(mb, e, delta) ==
    [mb EXCEPT ![e[1]] = [i \in 1..Len(@) |->
                             [@[i] EXCEPT !.count = AdjustCount(@, delta)]]]

AdjustBead(mb, e, delta) ==
    [mb EXCEPT ![e[1]][e[2] + 1].count = AdjustCount(@, delta)]

\* faulty variant: a pair that occurs again in the record is adjusted once
RECURSIVE AdjustLoopDedup(_, _, _, _)
AdjustLoopDedup(mb, rec, delta, n) ==
    IF n = 0 THEN mb
    ELSE IF \E j \in 1..(n - 1) : rec[j] = rec[n]
         THEN AdjustLoopDedup(mb, rec, delta, n - 1)
         ELSE AdjustBead(AdjustLoopDedup(mb, rec, delta, n - 1), rec[n], delta)

\* the for loop of adjust over the first n entries of the record
RECURSIVE AdjustLoop(_, _, _, _)
AdjustLoop(mb, rec, delta, n) ==
    IF n = 0 THEN mb
    ELSE AdjustBead(AdjustLoop(mb, rec, delta, n - 1), rec[n], delta)

\* number of leading record entries the loop processes before an unwrap fails
RECURSIVE ValidPrefix(_, _, _)
ValidPrefix(mb, rec, n) ==
    IF n >= Len(rec) THEN Len(rec)
    ELSE IF ValidEntry(mb, rec[n + 1]) THEN ValidPrefix(mb, rec, n + 1)
    ELSE n

----------------------------------------------------------------------------
(* menace.rs: the file of load and save.                                   *)
(* A file is absent (or unreadable), empty, cut short (a proper non-empty  *)
(* part of a document), or holds a whole JSON value.  A JSON object is a   *)
(* function of its member names, a JSON array a sequence, a JSON number    *)
(* its sign and its magnitude (a u32 held as counts are).                  *)

FileOf(kind, value) == [kind |-> kind, value |-> value]

\* fs::read_to_string fails on it
NoFile == FileOf("absent", <<>>)

\* what File::create leaves before the first byte is written
EmptyFile == FileOf("empty", <<>>)

\* what a write that fails part-way leaves
PartialFile == FileOf("partial", <<>>)

Document(value) == FileOf("json", value)

JNum(n) == [type |-> "number", neg |-> FALSE, mag |-> n]

JNeg(n) == [type |-> "number", neg |-> TRUE, mag |-> n]

\* menace.rs:16-22, derive(Serialize): a Bead is written as an object with
\* the members action (the pair as an array of two numbers) and count
Bead_to_json(bead) ==
    [action |-> <<JNum(bead.action[1]), JNum(bead.action[2])>>,
     count |-> JNum(bead.count)]

\* menace.rs:130: the table is written as an object of arrays of beads; the
\* record is not part of it
to_json(mb) ==
    [k \in DOMAIN mb |-> [i \in 1..Len(mb[k]) |-> Bead_to_json(mb[k][i])]]

\* a number an unsigned field accepts
UnsignedOk(j) == j.type = "number" /\ ~j.neg

\* menace.rs:16-22, derive(Deserialize): both members are required, action
\* is an array of two unsigned numbers and count an unsigned number
BeadOk(jb) ==
    /\ {"action", "count"} \subseteq DOMAIN jb
    /\ Len(jb.action) = 2
    /\ UnsignedOk(jb.action[1]) /\ UnsignedOk(jb.action[2])
    /\ UnsignedOk(jb.count)

\* serde_json::from_str::<HashMap<String, Vec<Bead>>> succeeds on the value
JsonOk(value) ==
    \A k \in DOMAIN value : \A i \in 1..Len(value[k]) : BeadOk(value[k][i])

\* faulty variant: row and column of the action are exchanged
Bead_from_jsonSwapped(jb) ==
    [action |-> <<jb.action[2].mag, jb.action[1].mag>>, count |-> jb.count.mag]

Bead_from_json(jb) ==
    [action |-> <<jb.action[1].mag, jb.action[2].mag>>, count |-> jb.count.mag]

from_json(value) ==
    [k \in DOMAIN value |-> [i \in 1..Len(value[k]) |-> Bead_from_json(value[k][i])]]

\* faulty variant: a document that does not parse is read as an empty table
load_resultLenient(f) ==
    IF f.kind = "absent" THEN "Unable to read file" ELSE "Ok"

\* menace.rs:93-111: the Result of Menace::load, "Ok" or the error message
load_result(f) ==
    IF f.kind = "absent" THEN "Unable to read file"
    ELSE IF f.kind # "json" \/ ~JsonOk(f.value) THEN "Failed to load JSON file"
    ELSE "Ok"

\* menace.rs:107-110: the table of the engine load builds when it succeeds
loaded(f) == from_json(f.value)

\* menace.rs:125-135: the Result of save and the file it leaves.  File::create
\* fails and leaves the file alone, or truncates it; to_writer_pretty then
\* writes the document straight to the file and may fail before the first
\* byte, part-way, or not at all.
save_outcomes(mb, f) ==
    { <<"Failed to create file", f>>,
      <<"Failed to write to file", EmptyFile>>,
      <<"Failed to write to file", PartialFile>>,
      <<"Ok", Document(to_json(mb))>> }

----------------------------------------------------------------------------
(* Menace::choose and Menace::adjust as state transitions.                 *)
(* call is the last call made on the engine: its name, its delta (adjust), *)
(* the board key and the sampled index (choose), what it returned (the     *)
(* action of choose, the Result of load and save), and the board, table,   *)
(* record and file it started from.                                        *)

Called(op, delta, key, index, ret) ==
    [op |-> op, delta |-> delta, key |-> key, index |-> index, ret |-> ret,
     result |-> "none",
     board |-> board, matchbox |-> matchbox, record |-> record, file |-> file]

\* a call of load or save and its Result
Returned(op, result) ==
    [Called(op, 0, <<>>, 0 - 1, NoAction) EXCEPT !.result = result]

NoCall ==
    [op |-> "none", delta |-> 0, key |-> <<>>, index |-> -1, ret |-> NoAction,
     result |-> "none",
     board |-> <<>>, matchbox |-> <<>>, record |-> <<>>, file |-> NoFile]

\* faulty variant: the entry is populated again on every call
EnsuredAlways(mb, b) == populate(mb, flatten(b), possible_moves(b))

\* menace.rs:151-153: the entry is inserted when the key is absent
Ensured(mb, b) ==
    IF flatten(b) \in DOMAIN mb THEN mb
    ELSE populate(mb, flatten(b), possible_moves(b))

\* the indices the sampling of menace.rs:156-161 can yield; a sum of weights
\* that overflows u32 panics or wraps according to the build
ChooseIndices(moves) ==
    CASE WeightedIndex_new(Counts(moves)) = "ok" -> SampleSet(Counts(moves))
      [] WeightedIndex_new(Counts(moves)) = "Overflow" -> 0..(Len(moves) - 1)
      [] OTHER -> {}

\* the unwrap() of menace.rs:156 panics
ChoosePanics(moves) == WeightedIndex_new(Counts(moves)) # "ok"

\* faulty variant: the first bead whatever the index
BeadAtFirst(moves, index) == moves[1]

\* menace.rs:162
BeadAt(moves, index) == moves[index + 1]

\* faulty variant: the index is recorded counting from 1
RecordPushOneBased(rec, game_state, index) == Append(rec, <<game_state, index + 1>>)

\* menace.rs:164
RecordPush(rec, game_state, index) == Append(rec, <<game_state, index>>)

\* menace.rs:166; legal_move indexes the board, so a cell outside it panics too
ActionLegal(b, action) == action \in Cells /\ legal_move(b, action)

\* menace.rs:148-170; next is where the caller continues when choose returns
choose(next) ==
    LET game_state == flatten(board)
        mb == Ensured(matchbox, board)
        moves == mb[game_state]
    IN  /\ matchbox' = mb
        /\ \/ /\ ChoosePanics(moves)
              /\ record' = record
              /\ pc' = "panic"
              /\ call' = Called("choose", 0, game_state, -1, NoAction)
           \/ \E index \in ChooseIndices(moves) :
                 LET bead == BeadAt(moves, index)
                 IN  /\ record' = RecordPush(record, game_state, index)
                     /\ IF ActionLegal(board, bead.action)
                        THEN /\ pc' = next
                             /\ call' = Called("choose", 0, game_state, index, bead.action)
                        ELSE /\ pc' = "panic"
                             /\ call' = Called("choose", 0, game_state, index, NoAction)

\* faulty variant: the record is kept
NotCleared(rec) == rec

\* menace.rs:211
Cleared(rec) == <<>>

\* menace.rs:197-212; an unwrap() that fails ends the loop in a panic
adjust(delta, next) ==
    LET n == ValidPrefix(matchbox, record, 0)
    IN  /\ matchbox' = AdjustLoop(matchbox, record, delta, n)
        /\ call' = Called("adjust", delta, <<>>, -1, NoAction)
        /\ IF n = Len(record)
           THEN record' = Cleared(record) /\ pc' = next
           ELSE record' = record /\ pc' = "panic"

----------------------------------------------------------------------------
(* A client of the engine: owns a board and an engine, fills empty cells   *)
(* and calls choose and adjust in any order.                               *)

\* X O X / O O X / O . .  : two empty cells, nobody has won
StartRows == <<"X", "O", "X", "O", "O", "X", "O", "EMPTY", "EMPTY">>

StartBoard == [c \in Cells |-> StartRows[3 * c[1] + c[2] + 1]]

Init ==
    /\ board = StartBoard
    /\ matchbox = <<>>
    /\ record = <<>>
    /\ pc = "client"
    /\ call = NoCall
    /\ game_adjusts = 0
    /\ file = NoFile

ClientSet ==
    /\ pc = "client"
    /\ \E cell \in Cells, sym \in {"X", "O"} :
          /\ legal_move(board, cell)
          /\ board' = set(board, cell, sym)
    /\ call' = NoCall
    /\ UNCHANGED <<matchbox, record, pc, game_adjusts, file>>

ClientChoose ==
    /\ pc = "client"
    /\ Len(record) < MaxRecord
    /\ choose("client")
    /\ UNCHANGED <<board, game_adjusts, file>>

\* every count is at most bound away from 0 or from 2^32
CountsWithin(mb, bound) ==
    \A k \in DOMAIN mb : \A i \in 1..Len(mb[k]) :
        mb[k][i].count \in (0 - bound)..bound

ClientAdjust ==
    /\ pc = "client"
    /\ \E delta \in Deltas :
          /\ CountsWithin(AdjustLoop(matchbox, record, delta, ValidPrefix(matchbox, record, 0)),
                          MaxCount)
          /\ adjust(delta, "client")
    /\ UNCHANGED <<board, game_adjusts, file>>

Next == ClientSet \/ ClientChoose \/ ClientAdjust

Spec == Init /\ [][Next]_vars

----------------------------------------------------------------------------
(* The same client on an engine built by Menace::load (menace.rs:93-111):  *)
(* the table is whatever document the file held, the record is empty.      *)

\* u32::MAX
U32_MAX == 0 - 1

StartKey == flatten(StartBoard)

\* documents serde_json accepts as HashMap<String, Vec<Bead>>
LoadedTables ==
    { <<>>,
      StartKey :> <<>>,
      StartKey :> <<[action |-> <<2, 1>>, count |-> 0], [action |-> <<2, 2>>, count |-> 0]>>,
      StartKey :> <<[action |-> <<2, 1>>, count |-> 1], [action |-> <<2, 2>>, count |-> 3]>>,
      StartKey :> <<[action |-> <<2, 1>>, count |-> U32_MAX], [action |-> <<2, 2>>, count |-> 2]>>,
      StartKey :> <<[action |-> <<2, 2>>, count |-> U32_MAX - 2]>>,
      StartKey :> <<[action |-> <<0, 0>>, count |-> 2], [action |-> <<2, 2>>, count |-> 2]>>,
      StartKey :> <<[action |-> <<2, 1>>, count |-> 2], [action |-> <<5, 5>>, count |-> 2]>> }

LoadInit ==
    /\ board = StartBoard
    /\ matchbox \in LoadedTables
    /\ record = <<>>
    /\ pc = "client"
    /\ call = NoCall
    /\ game_adjusts = 0
    /\ file = Document(to_json(matchbox))

LoadSpec == LoadInit /\ [][Next]_vars

----------------------------------------------------------------------------
(* main.rs: game_loop on a new board and a new engine.                     *)
(* pc is the position in the loop; game_adjusts counts the adjust calls    *)
(* check_game_over has made since the board was created.                   *)

\* what the player types: one of the first empty cells, or a cell that is
\* not on the board (str_to_tuple accepts any pair of numbers)
PlayerOptions(b) ==
    {possible_moves(b)[i] : i \in (1..MaxPlayerOptions) \cap (1..Len(possible_moves(b)))}

OffBoard == <<3, 0>>

LoopInit ==
    /\ board = TicTacToe_new
    /\ matchbox = <<>>
    /\ record = <<>>
    /\ pc = "player"
    /\ call = NoCall
    /\ game_adjusts = 0
    /\ file = NoFile

\* main.rs:40-41: get_player_move returns a legal cell, which is set to O
PlayerMove ==
    /\ pc = "player"
    /\ \E player_move \in PlayerOptions(board) :
          /\ legal_move(board, player_move)
          /\ board' = set(board, player_move, "O")
    /\ pc' = "check_player"
    /\ UNCHANGED <<matchbox, record, call, game_adjusts, file>>

\* main.rs:84: legal_move indexes the board with the cell as typed
PlayerOffBoard ==
    /\ pc = "player"
    /\ OffBoard \notin Cells
    /\ pc' = "panic"
    /\ UNCHANGED <<board, matchbox, record, call, game_adjusts, file>>

\* main.rs:172-182
check_game_over(menace_turn, over, ongoing) ==
    IF check_win(board)
    THEN /\ adjust(IF menace_turn THEN WIN ELSE LOSE, over)
         /\ game_adjusts' = game_adjusts + 1
    ELSE IF board_full(board)
    THEN /\ adjust(DRAW, over)
         /\ game_adjusts' = game_adjusts + 1
    ELSE /\ pc' = ongoing
         /\ UNCHANGED <<matchbox, record, call, game_adjusts>>

\* main.rs:45
CheckPlayer ==
    /\ pc = "check_player"
    /\ check_game_over(FALSE, "prompt_player", "menace")
    /\ UNCHANGED <<board, file>>

\* main.rs:48-50
PromptPlayer ==
    /\ pc = "prompt_player"
    /\ \E again \in BOOLEAN : pc' = IF again THEN "menace" ELSE "exit"
    /\ UNCHANGED <<board, matchbox, record, call, game_adjusts, file>>

\* main.rs:53-54
MenaceMove ==
    /\ pc = "menace"
    /\ choose("check_menace")
    /\ board' = IF pc' = "check_menace" THEN set(board, call'.ret, "X") ELSE board
    /\ UNCHANGED <<game_adjusts, file>>

\* main.rs:58
CheckMenace ==
    /\ pc = "check_menace"
    /\ check_game_over(TRUE, "prompt_menace", "player")
    /\ UNCHANGED <<board, file>>

\* main.rs:61-63
PromptMenace ==
    /\ pc = "prompt_menace"
    /\ \E again \in BOOLEAN : pc' = IF again THEN "player" ELSE "exit"
    /\ UNCHANGED <<board, matchbox, record, call, game_adjusts, file>>

LoopNext ==
    \/ PlayerMove
    \/ PlayerOffBoard
    \/ CheckPlayer
    \/ PromptPlayer
    \/ MenaceMove
    \/ CheckMenace
    \/ PromptMenace

LoopSpec == LoopInit /\ [][LoopNext]_vars

----------------------------------------------------------------------------
(* main.rs: main.  The engine is loaded from the file, or is a new one     *)
(* when load fails; game_loop runs; the engine is saved when it returns.   *)

\* the board after the player has opened at (0, 0)
StoredKey == flatten(set(TicTacToe_new, <<0, 0>>, "O"))

\* a table an earlier run has learned: on that board the centre has four
\* beads, the far corner one, every other cell none
StoredTable ==
    StoredKey :>
        [i \in 1..8 |->
            [action |-> possible_moves(set(TicTacToe_new, <<0, 0>>, "O"))[i],
             count |-> IF i = 4 THEN 4 ELSE IF i = 8 THEN 1 ELSE 0]]

\* a document with a negative count
IllTyped ==
    StoredKey :> <<[action |-> <<JNum(1), JNum(1)>>, count |-> JNeg(1)]>>

\* what menace.json can be when main starts
InitialFiles ==
    {NoFile, PartialFile, Document(IllTyped), Document(to_json(StoredTable))}

MainInit ==
    /\ board = TicTacToe_new
    /\ matchbox = <<>>
    /\ record = <<>>
    /\ pc = "main"
    /\ call = NoCall
    /\ game_adjusts = 0
    /\ file \in InitialFiles

\* main.rs:15-21: the loaded engine, or Menace::new() when load returns Err
MainLoad ==
    /\ pc = "main"
    /\ matchbox' = IF load_result(file) = "Ok" THEN loaded(file) ELSE <<>>
    /\ record' = <<>>
    /\ call' = Returned("load", load_result(file))
    /\ pc' = "player"
    /\ UNCHANGED <<board, game_adjusts, file>>

\* main.rs:27: the Result of save is the Result of main
MainSave ==
    /\ pc = "exit"
    /\ \E out \in save_outcomes(matchbox, file) :
          /\ file' = out[2]
          /\ call' = Returned("save", out[1])
    /\ pc' = "done"
    /\ UNCHANGED <<board, matchbox, record, game_adjusts>>

MainNext == MainLoad \/ LoopNext \/ MainSave

MainSpec == MainInit /\ [][MainNext]_vars

----------------------------------------------------------------------------
(* The client of Spec with a file: at any point of play it saves its       *)
(* engine and stops, and a second process loads the file.                  *)

\* the document an earlier process has left
OldTable ==
    StartKey :> <<[action |-> <<2, 1>>, count |-> 1], [action |-> <<2, 2>>, count |-> 3]>>

SaveInit ==
    /\ board = StartBoard
    /\ matchbox = <<>>
    /\ record = <<>>
    /\ pc = "client"
    /\ call = NoCall
    /\ game_adjusts = 0
    /\ file = Document(to_json(OldTable))

\* menace.rs:125-135
ClientSave ==
    /\ pc = "client"
    /\ \E out \in save_outcomes(matchbox, file) :
          /\ file' = out[2]
          /\ call' = Returned("save", out[1])
          /\ pc' = IF out[1] = "Ok" THEN "saved" ELSE "save_failed"
    /\ UNCHANGED <<board, matchbox, record, game_adjusts>>

\* menace.rs:93-111, called by a process started after the save: it has the
\* loaded engine, or no engine when load returns Err; call keeps the table
\* and the record of the process that saved
ClientLoad ==
    /\ pc \in {"saved", "save_failed"}
    /\ call' = Returned("load", load_result(file))
    /\ matchbox' = IF load_result(file) = "Ok" THEN loaded(file) ELSE <<>>
    /\ record' = <<>>
    /\ pc' = IF load_result(file) # "Ok" THEN "no_engine"
             ELSE IF pc = "saved" THEN "reloaded" ELSE "loaded"
    /\ UNCHANGED <<board, game_adjusts, file>>

SaveNext == Next \/ ClientSave \/ ClientLoad

SaveSpec == SaveInit /\ [][SaveNext]_vars

----------------------------------------------------------------------------
(* Properties.  A property about a call reads call (what the call started  *)
(* from) against the current state (what it left).                         *)

Max(a, b) == IF a >= b THEN a ELSE b

NoDuplicates(rec) == \A i, j \in 1..Len(rec) : i # j => rec[i] # rec[j]

Occurrences(rec, e) == Cardinality({i \in 1..Len(rec) : rec[i] = e})

ActionsOf(moves) == [i \in 1..Len(moves) |-> moves[i].action]

\* count of the bead a record entry names, in table mb
CountAt(mb, e) == mb[e[1]][e[2] + 1].count

\* C1 (weight floor): every bead count of the table is a u32 value that is at
\* least MIN_COUNT, and an adjust with a negative delta never leaves a bead
\* with a larger value than it had (the count stops at the floor instead of
\* wrapping below it); so a bead at 0 that adjust(LOSE) reaches stays at 0.
C1_WeightFloor ==
    /\ \A k \in DOMAIN matchbox : \A i \in 1..Len(matchbox[k]) :
          U32Leq(MIN_COUNT, matchbox[k][i].count)
    /\ (call.op = "adjust" /\ call.delta < 0) =>
          \A k \in DOMAIN call.matchbox : \A i \in 1..Len(call.matchbox[k]) :
             U32Leq(matchbox[k][i].count, call.matchbox[k][i].count)

\* adjust(LOSE) has met a recorded bead at 0 (it was recorded more often than
\* it had beads) and left it at 0
C1_Witness ==
    /\ call.op = "adjust"
    /\ call.delta = LOSE
    /\ \E i \in 1..Len(call.record) :
          /\ CountAt(call.matchbox, call.record[i]) >= 0
          /\ CountAt(call.matchbox, call.record[i]) < Occurrences(call.record, call.record[i])
          /\ CountAt(matchbox, call.record[i]) = 0

\* C2 (adjust update rule): after adjust(delta) on a record without repeated
\* pairs, every recorded bead holds max(old count + delta, 0).
C2_AdjustRule ==
    (call.op = "adjust" /\ NoDuplicates(call.record)) =>
        \A i \in 1..Len(call.record) :
            CountAt(matchbox, call.record[i])
                = Max(CountAt(call.matchbox, call.record[i]) + call.delta, 0)

\* adjust(WIN) has run on a record of two different pairs, in a table where
\* an earlier adjust(LOSE) has left a bead at 1
C2_Witness ==
    /\ call.op = "adjust"
    /\ call.delta = WIN
    /\ Len(call.record) = 2
    /\ NoDuplicates(call.record)
    /\ \E k \in DOMAIN matchbox : \E i \in 1..Len(matchbox[k]) : matchbox[k][i].count = 1

\* C3 (selection legality): a choose that returns has returned the action of
\* the bead at the sampled index of the entry of the current board key, the
\* index is in range of that entry, and the record is the old record followed
\* by the one pair (key, index).
C3_SelectionLegality ==
    (call.op = "choose" /\ pc # "panic") =>
        /\ call.key = flatten(call.board)
        /\ call.key \in DOMAIN matchbox
        /\ call.index \in 0..(Len(matchbox[call.key]) - 1)
        /\ matchbox[call.key][call.index + 1].action = call.ret
        /\ call.ret \in {matchbox[call.key][i].action : i \in 1..Len(matchbox[call.key])}
        /\ record = Append(call.record, <<call.key, call.index>>)

\* choose has returned the second bead of an entry, as the second decision
\* of the record
C3_Witness ==
    /\ call.op = "choose"
    /\ pc # "panic"
    /\ call.index = 1
    /\ Len(record) = 2

\* the entry of the board key the call was made on is non-empty and all its
\* counts are 0
Starved(mb, key) ==
    /\ key \in DOMAIN mb
    /\ Len(mb[key]) > 0
    /\ \A i \in 1..Len(mb[key]) : mb[key][i].count = 0

\* C4 (uniform fallback): choose on a starved state does not fail: it returns
\* one of the entry's actions and appends the choice to the record.
C4_UniformFallback ==
    (call.op = "choose" /\ Starved(call.matchbox, call.key)) =>
        /\ pc # "panic"
        /\ call.ret \in {matchbox[call.key][i].action : i \in 1..Len(matchbox[call.key])}
        /\ record = Append(call.record, <<call.key, call.index>>)

\* C5 (episode protocol of game_loop): a game (a board) receives at most one
\* adjust, and no decision is recorded on a board that has been adjusted.
C5_EpisodeProtocol ==
    /\ game_adjusts <= 1
    /\ record # <<>> => game_adjusts = 0

\* C6 (episode clearing): after an adjust call the record is empty, and an
\* adjust call made with an empty record leaves the table as it was.
C6_EpisodeClearing ==
    call.op = "adjust" =>
        /\ record = <<>>
        /\ call.record = <<>> => matchbox = call.matchbox

\* adjust has been called with an empty record on a table that earlier
\* adjustments have changed
C6_Witness ==
    /\ call.op = "adjust"
    /\ call.record = <<>>
    /\ \E k \in DOMAIN matchbox : \E i \in 1..Len(matchbox[k]) :
          matchbox[k][i].count # INITIAL_COUNT

\* C7 (initialization immutability): a choose on a key that has an entry
\* leaves the whole table unchanged, and no choose or adjust removes a key or
\* changes the list of actions of an entry that existed before the call.
C7_InitImmutability ==
    /\ (call.op = "choose" /\ call.key \in DOMAIN call.matchbox) =>
          matchbox = call.matchbox
    /\ call.op \in {"choose", "adjust"} =>
          \A k \in DOMAIN call.matchbox :
             /\ k \in DOMAIN matchbox
             /\ ActionsOf(matchbox[k]) = ActionsOf(call.matchbox[k])

\* choose has returned on a key whose entry an adjust had changed before
C7_Witness ==
    /\ call.op = "choose"
    /\ pc # "panic"
    /\ call.key \in DOMAIN call.matchbox
    /\ \E i \in 1..Len(call.matchbox[call.key]) :
          call.matchbox[call.key][i].count # INITIAL_COUNT

\* position of a cell in row-major order
Rank(cell) == 3 * cell[1] + cell[2]

\* C8 (lazy initialization): a choose on a key without an entry adds that key
\* and no other, keeps every other entry, and the new entry holds exactly the
\* empty cells of the board, once each, in row-major order, each with
\* INITIAL_COUNT = 2 beads.
C8_LazyInit ==
    (call.op = "choose" /\ call.key \notin DOMAIN call.matchbox) =>
        /\ DOMAIN matchbox = DOMAIN call.matchbox \cup {call.key}
        /\ \A k \in DOMAIN call.matchbox : matchbox[k] = call.matchbox[k]
        /\ LET entry == matchbox[call.key]
           IN  /\ {entry[i].action : i \in 1..Len(entry)}
                     = {c \in Cells : call.board[c] = "EMPTY"}
               /\ \A i, j \in 1..Len(entry) :
                     i < j => Rank(entry[i].action) < Rank(entry[j].action)
               /\ \A i \in 1..Len(entry) : entry[i].count = 2

\* a first choose on a board with several empty cells, made when the table
\* already held other entries
C8_Witness ==
    /\ call.op = "choose"
    /\ call.key \notin DOMAIN call.matchbox
    /\ call.matchbox # <<>>
    /\ Len(matchbox[call.key]) >= 4
    /\ pc # "panic"

\* the pairs of a record, as a set
Recorded(rec) == {rec[i] : i \in 1..Len(rec)}

\* C9 (adjust touches only recorded beads): adjust adds and removes no key,
\* and no bead, and changes the count of no bead the record does not name;
\* after one choose on a fresh entry and adjust(WIN) the chosen bead holds 5
\* and the other beads of the entry hold 2.
C9_AdjustFrame ==
    call.op = "adjust" =>
        /\ DOMAIN matchbox = DOMAIN call.matchbox
        /\ \A k \in DOMAIN matchbox :
              /\ ActionsOf(matchbox[k]) = ActionsOf(call.matchbox[k])
              /\ \A i \in 1..Len(matchbox[k]) :
                    <<k, i - 1>> \notin Recorded(call.record)
                       => matchbox[k][i].count = call.matchbox[k][i].count
        /\ ( /\ call.delta = WIN
             /\ Len(call.record) = 1
             /\ \A i \in 1..Len(call.matchbox[call.record[1][1]]) :
                   call.matchbox[call.record[1][1]][i].count = INITIAL_COUNT )
           => \A i \in 1..Len(matchbox[call.record[1][1]]) :
                 matchbox[call.record[1][1]][i].count
                    = IF i - 1 = call.record[1][2] THEN 5 ELSE 2

\* adjust has run on a record naming one bead of a table that holds a bead an
\* earlier adjust changed and beads no adjust has touched
C9_Witness ==
    /\ call.op = "adjust"
    /\ Len(call.record) = 1
    /\ \E k \in DOMAIN call.matchbox : \E i, j \in 1..Len(call.matchbox[k]) :
          /\ <<k, i - 1>> \notin Recorded(call.record)
          /\ call.matchbox[k][i].count # INITIAL_COUNT
          /\ <<k, j - 1>> \in Recorded(call.record)
          /\ matchbox[k][j].count # call.matchbox[k][j].count

\* C10 (no legal actions): choose on a board without an empty cell panics: it
\* returns no action and the record is as it was.
C10_NoLegalActions ==
    (call.op = "choose" /\ board_full(call.board)) =>
        /\ pc = "panic"
        /\ call.ret = NoAction
        /\ record = call.record

\* choose has been called on a full board while the record held a decision
C10_Witness ==
    /\ call.op = "choose"
    /\ board_full(call.board)
    /\ call.record # <<>>

\* C14 (episode validity): every pair (key, index) of the record names a key
\* of the table and an index below the length of that key's entry, so the two
\* unwrap() of adjust succeed on every entry: adjust does not panic.
C14_EpisodeValidity ==
    /\ \A i \in 1..Len(record) : ValidEntry(matchbox, record[i])
    /\ call.op = "adjust" => pc # "panic"

\* adjust has gone through a record of two decisions made on different keys,
\* the second on the last bead of its entry
C14_Witness ==
    /\ call.op = "adjust"
    /\ pc # "panic"
    /\ Len(call.record) = 2
    /\ call.record[1][1] # call.record[2][1]
    /\ call.record[2][2] + 1 = Len(matchbox[call.record[2][1]])

\* C17 (duplicates are adjusted per occurrence): after adjust(delta) a bead
\* that the record names k times holds max(old count + k * delta, 0): the
\* delta is applied once for each occurrence, with the floor after each one.
C17_PerOccurrence ==
    call.op = "adjust" =>
        \A i \in 1..Len(call.record) :
            CountAt(matchbox, call.record[i])
                = Max(CountAt(call.matchbox, call.record[i])
                        + Occurrences(call.record, call.record[i]) * call.delta, 0)

\* adjust(LOSE) has run on a record that names the same bead twice while the
\* bead held one count, so the second application met the floor
C17_Witness ==
    /\ call.op = "adjust"
    /\ call.delta = LOSE
    /\ Len(call.record) = 2
    /\ call.record[1] = call.record[2]
    /\ CountAt(call.matchbox, call.record[1]) = 1
    /\ CountAt(matchbox, call.record[1]) = 0

\* C19 (stored actions are legal for their key): in a table grown from
\* Menace::new() every bead stored under a key K names a cell of the board
\* whose character in K is the one of EMPTY, that is a cell that is empty in
\* every board that flattens to K; and choose never ends in its illegal-move
\* panic (a sampled bead whose action the board refuses).
C19_StoredActionsLegal ==
    /\ \A k \in DOMAIN matchbox : \A i \in 1..Len(matchbox[k]) :
          /\ matchbox[k][i].action \in Cells
          /\ k[Rank(matchbox[k][i].action) + 1] = as_char("EMPTY")
    /\ (call.op = "choose" /\ call.index >= 0) =>
          /\ call.board[matchbox[call.key][call.index + 1].action] = "EMPTY"
          /\ call.ret # NoAction

\* choose has returned a bead of an entry that an earlier call had populated
\* and an adjust had changed
C19_Witness ==
    /\ call.op = "choose"
    /\ call.key \in DOMAIN call.matchbox
    /\ call.index >= 0
    /\ call.ret # NoAction
    /\ \E i \in 1..Len(call.matchbox[call.key]) :
          call.matchbox[call.key][i].count # INITIAL_COUNT

\* C18 (support of the weighted selection): the index a choose has sampled
\* is one of a bead with a positive count, and wherever choose can be
\* called on a board whose entry has beads with a positive count, each of
\* those beads is one the call can select.
C18_SelectionSupport ==
    /\ (call.op = "choose" /\ call.index >= 0) =>
          matchbox[call.key][call.index + 1].count # 0
    /\ (pc = "client" /\ Len(record) < MaxRecord) =>
          LET moves == Ensured(matchbox, board)[flatten(board)]
          IN  \A i \in 1..Len(moves) :
                 moves[i].count # 0 =>
                    ENABLED (ClientChoose /\ call'.index = i - 1
                                          /\ call'.ret = moves[i].action)

\* choose has selected a bead of an entry in which another bead is at 0
C18_Witness ==
    /\ call.op = "choose"
    /\ call.index >= 0
    /\ pc # "panic"
    /\ \E j \in 1..Len(matchbox[call.key]) : matchbox[call.key][j].count = 0

\* C20 (a positive delta does not wrap): adjust with a positive delta (WIN or
\* DRAW) leaves no bead with a smaller u32 count than it had, also when the
\* count is within 3 of the largest u32 value.
C20_RewardNeverLowers ==
    (call.op = "adjust" /\ call.delta > 0) =>
        \A k \in DOMAIN call.matchbox : \A i \in 1..Len(call.matchbox[k]) :
            U32Leq(call.matchbox[k][i].count, matchbox[k][i].count)

\* the symbol holds a full row, column or diagonal of the board
HasLine(b, sym) ==
    \/ \E r \in 0..2 : \A c \in 0..2 : b[<<r, c>>] = sym
    \/ \E c \in 0..2 : \A r \in 0..2 : b[<<r, c>>] = sym
    \/ \A d \in 0..2 : b[<<d, d>>] = sym
    \/ \A d \in 0..2 : b[<<d, 2 - d>>] = sym

\* C15 (outcome fidelity): an adjust made by check_game_over carries the
\* outcome seen on the board: WIN only when X has three in a row, LOSE only
\* when O has three in a row, DRAW only when the board is full and neither
\* has three in a row.
C15_OutcomeFidelity ==
    call.op = "adjust" =>
        /\ call.delta = WIN => HasLine(call.board, "X")
        /\ call.delta = LOSE => HasLine(call.board, "O")
        /\ call.delta = DRAW =>
              /\ board_full(call.board)
              /\ ~HasLine(call.board, "X")
              /\ ~HasLine(call.board, "O")

\* C16 (choose is called on non-terminal boards only): every choose that
\* game_loop makes is made on a board on which check_win is false and at
\* least one cell is empty.
C16_ChooseNonTerminal ==
    call.op = "choose" =>
        /\ ~check_win(call.board)
        /\ ~board_full(call.board)

\* the file is missing or unreadable, or does not hold a table: it is empty
\* or cut short, or a bead of it has a negative count
Unloadable(f) ==
    \/ f.kind \in {"absent", "empty", "partial"}
    \/ /\ f.kind = "json"
       /\ \E k \in DOMAIN f.value : \E i \in 1..Len(f.value[k]) : f.value[k][i].count.neg

\* C11 (load failure falls back to a new engine): the first step of main
\* always reaches game_loop, and when the file cannot be loaded Menace::load
\* returns an Err and game_loop starts with the engine of Menace::new(), its
\* table and its record empty.
C11_LoadFallback ==
    [][pc = "main" =>
          /\ pc' = "player"
          /\ Unloadable(file) =>
                /\ call'.op = "load"
                /\ call'.result # "Ok"
                /\ matchbox' = <<>>
                /\ record' = <<>>]_vars

\* load has failed on a file that holds a document with a negative count, and
\* MENACE has made its first move with an engine that started empty
C11_Witness ==
    /\ file.kind = "json"
    /\ Unloadable(file)
    /\ call.op = "choose"
    /\ call.matchbox = <<>>
    /\ pc = "check_menace"

\* C12 (save then load): after a successful save, a load of the file gives an
\* engine whose table has the keys of the saved table and under each key the
\* same actions in the same order with the same counts, and whose record is
\* empty whatever the record of the saved engine held.
C12_SaveLoadRoundTrip ==
    pc = "reloaded" =>
        /\ call.op = "load"
        /\ call.result = "Ok"
        /\ DOMAIN matchbox = DOMAIN call.matchbox
        /\ \A k \in DOMAIN matchbox :
              /\ ActionsOf(matchbox[k]) = ActionsOf(call.matchbox[k])
              /\ Counts(matchbox[k]) = Counts(call.matchbox[k])
        /\ record = <<>>

\* an engine with decisions on record and a table of two entries, one of
\* them holding a bead at 0, has been saved and loaded
C12_Witness ==
    /\ pc = "reloaded"
    /\ call.record # <<>>
    /\ Cardinality(DOMAIN call.matchbox) >= 2
    /\ \E k \in DOMAIN call.matchbox : \E i \in 1..Len(call.matchbox[k]) :
          call.matchbox[k][i].count = 0

\* C13 (save is all or nothing): after a save that returned an Err the file
\* is what it was before the call, or it holds the whole new document; it is
\* not empty and not cut short.
C13_SaveAtomic ==
    (call.op = "save" /\ call.result # "Ok") =>
        \/ file = call.file
        \/ file.kind = "json" /\ from_json(file.value) = matchbox

====
